---- MODULE Spec2Model ----
(***************************************************************************)
(* fastai/vision/models/xresnet.py: the XResNet model definition.          *)
(*                                                                         *)
(* A module object of the framework is a record                            *)
(*   id      the identity of the object (a fresh number per constructor    *)
(*           call)                                                         *)
(*   kind    its class                                                     *)
(*   names   the names of its registered children, in registration order   *)
(*   ch      the registered children (records of the same form)            *)
(*   ni, nf  in/out channels (Conv2d), in/out features (Linear),           *)
(*           num_features (batch norm), the constructor's ni, nf (blocks)  *)
(*   ks, stride, pad   kernel size, stride, padding                        *)
(*   w, b    how the weight and the bias were last written: "none" (no     *)
(*           such parameter), "default" (the framework's constructor),     *)
(*           "kaiming", "one", "zero", "normal_0_01", "loaded"             *)
(*   seen    the number of times init_cnn was applied to the object        *)
(* The module tree is the nesting of the records; the framework's          *)
(* numerics are outside this file and are abstracted where they are used.  *)
(***************************************************************************)
EXTENDS Integers, Sequences, FiniteSets, TLC

VARIABLES
    pc,       \* position of the running call: "idle" when no call is running
    args,     \* the running (or last) call: [name, block, layers, num_classes, pre]
    ni,       \* self.ni of the XResNet being (or last) constructed
    stage,    \* the next layer (1..4) XResNet.__init__ builds
    model,    \* self: the XResNet being (or last) constructed
    models,   \* what the calls returned so far, in order: [args, model]
    ncalls,   \* the number of calls started
    nextId,   \* the next fresh object identity
    err,      \* the exception the last call ended with ("" when none)
    io,       \* what the running (or last) call did with model_urls and the weight loader
    out       \* the result of the last forward pass

vars == <<pc, args, ni, stage, model, models, ncalls, nextId, err, io, out>>

----------------------------------------------------------------------------
(* Bounds of the driver *)

\* block counts per stage drawn for XResNet(block, layers): 0..MaxBlocks
MaxBlocks == 1
\* calls a driver makes in a sequence of factory calls
MaxCalls == 2
\* input heights and widths of a forward pass: 1..MaxH
MaxH == 33

\* num_classes=1000, the default of XResNet.__init__
DefaultNumClasses == 1000
\* the values a caller passes as num_classes (through **kwargs to a factory)
NumClasses == {10, DefaultNumClasses}

\* an RGB image batch has three channels (conv_bn_relu(3, 32, stride=2))
InputChannels == 3

----------------------------------------------------------------------------
(* Sequence helpers *)

Reverse(s) == [i \in 1..Len(s) |-> s[Len(s) + 1 - i]]

Max(a, b) == IF a >= b THEN a ELSE b

RECURSIVE SumSeq(_)
SumSeq(s) == IF s = <<>> THEN 0 ELSE Head(s) + SumSeq(Tail(s))

----------------------------------------------------------------------------
(* The framework's module classes (torch.nn), as far as this file uses them *)

None == [id |-> 0, kind |-> "None", names |-> <<>>, ch |-> <<>>, ni |-> 0, nf |-> 0,
         ks |-> 0, stride |-> 0, pad |-> 0, w |-> "none", b |-> "none", seen |-> 0]

Module(id, kind, names, ch) == [None EXCEPT !.id = id, !.kind = kind, !.names = names, !.ch = ch]

\* the number of module objects of a tree
RECURSIVE Count(_)
Count(m) == IF m.kind = "None" THEN 0 ELSE 1 + SumSeq([i \in 1..Len(m.ch) |-> Count(m.ch[i])])

CountAll(ms) == SumSeq([i \in 1..Len(ms) |-> Count(ms[i])])

Conv2d(in_channels, out_channels, kernel_size, stride, padding, bias, id) ==
    [Module(id, "Conv2d", <<>>, <<>>) EXCEPT
        !.ni = in_channels, !.nf = out_channels, !.ks = kernel_size,
        !.stride = stride, !.pad = padding,
        !.w = "default", !.b = IF bias THEN "default" ELSE "none"]

\* variant: one ReLU object reused by every caller (a module-level instance)
ReLU_shared(id) == Module(0, "ReLU", <<>>, <<>>)

ReLU(id) == Module(id, "ReLU", <<>>, <<>>)

BatchNorm2d(num_features, id) ==
    [Module(id, "BatchNorm2d", <<>>, <<>>) EXCEPT
        !.ni = num_features, !.nf = num_features, !.w = "default", !.b = "default"]

BatchNorm1d(num_features, id) ==
    [Module(id, "BatchNorm1d", <<>>, <<>>) EXCEPT
        !.ni = num_features, !.nf = num_features, !.w = "default", !.b = "default"]

Linear(in_features, out_features, id) ==
    [Module(id, "Linear", <<>>, <<>>) EXCEPT
        !.ni = in_features, !.nf = out_features, !.w = "default", !.b = "default"]

MaxPool2d(kernel_size, stride, padding, id) ==
    [Module(id, "MaxPool2d", <<>>, <<>>) EXCEPT
        !.ks = kernel_size, !.stride = stride, !.pad = padding]

AvgPool2d(kernel_size, stride, id) ==
    [Module(id, "AvgPool2d", <<>>, <<>>) EXCEPT !.ks = kernel_size, !.stride = stride]

AdaptiveAvgPool2d(output_size, id) ==
    [Module(id, "AdaptiveAvgPool2d", <<>>, <<>>) EXCEPT !.nf = output_size]

\* nn.Sequential(*layers): the children are named "0", "1", ...
Sequential(layers, id) ==
    Module(id, "Sequential", [i \in 1..Len(layers) |-> ToString(i - 1)], layers)

\* m.<name> of a module with named children; None when there is no such child
Child(m, name) ==
    IF \E i \in 1..Len(m.names) : m.names[i] = name
    THEN m.ch[CHOOSE i \in 1..Len(m.names) : m.names[i] = name]
    ELSE None

\* setattr(m, name, c) for a new child c; assigning None registers nothing
AddChild(m, name, c) ==
    IF c.kind = "None" THEN m
    ELSE [m EXCEPT !.names = Append(@, name), !.ch = Append(@, c)]

----------------------------------------------------------------------------
(* xresnet.py, lines 17-67: the building blocks *)

conv(ni_, nf, ks, stride, bias, id) == Conv2d(ni_, nf, ks, stride, ks \div 2, bias, id)

\* variant: nn.BatchNorm2d(nf) whatever the order
bn_features_nf(ni_, nf, rev) == nf

\* nn.BatchNorm2d(ni if rev else nf)
bn_features(ni_, nf, rev) == IF rev THEN ni_ ELSE nf

\* variant: rev ignored
keep_order(layers, rev) == layers

\* if rev: layers = reversed(layers)
ordered(layers, rev) == IF rev THEN Reverse(layers) ELSE layers

conv_relu_bn_(ni_, nf, ks, stride, rev, id) ==
    ordered(<<conv(ni_, nf, ks, stride, FALSE, id),
              ReLU(id + 1),
              BatchNorm2d(bn_features(ni_, nf, rev), id + 2)>>, rev)

conv_bn_relu(ni_, nf, ks, stride, id) ==
    LET layers == conv_relu_bn_(ni_, nf, ks, stride, FALSE, id)
    IN  Sequential(layers, id + CountAll(layers))

bn_relu_conv(ni_, nf, ks, stride, id) ==
    LET layers == conv_relu_bn_(ni_, nf, ks, stride, TRUE, id)
    IN  Sequential(layers, id + CountAll(layers))

expansion(block) == IF block = "Bottleneck" THEN 4 ELSE 1

\* BasicBlock.__init__: the object itself is id, its children follow
BasicBlock(ni_, nf, stride, downsample, id) ==
    LET conv1 == bn_relu_conv(ni_, nf, 3, stride, id + 1)
        conv2 == bn_relu_conv(nf, nf, 3, 1, id + 1 + Count(conv1))
        self0 == [Module(id, "BasicBlock", <<>>, <<>>) EXCEPT
                    !.ni = ni_, !.nf = nf, !.stride = stride]
    IN  AddChild(AddChild(AddChild(self0, "conv1", conv1), "conv2", conv2),
                 "downsample", downsample)

Bottleneck(ni_, nf, stride, downsample, id) ==
    LET conv1 == bn_relu_conv(ni_, nf, 1, 1, id + 1)
        conv2 == bn_relu_conv(nf, nf, 3, stride, id + 1 + Count(conv1))
        conv3 == bn_relu_conv(nf, nf * expansion("Bottleneck"), 1, 1,
                              id + 1 + Count(conv1) + Count(conv2))
        self0 == [Module(id, "Bottleneck", <<>>, <<>>) EXCEPT
                    !.ni = ni_, !.nf = nf, !.stride = stride]
    IN  AddChild(AddChild(AddChild(AddChild(self0, "conv1", conv1), "conv2", conv2),
                          "conv3", conv3), "downsample", downsample)

\* block(ni, nf, stride, downsample) for the class the caller passed
Block(block, ni_, nf, stride, downsample, id) ==
    IF block = "Bottleneck" THEN Bottleneck(ni_, nf, stride, downsample, id)
    ELSE BasicBlock(ni_, nf, stride, downsample, id)

----------------------------------------------------------------------------
(* xresnet.py, lines 96-110: XResNet._make_layer *)

\* range(a, b) of Python, as a sequence
range(a, b) == [i \in 1..Max(b - a, 0) |-> a + i - 1]

\* variant: the channel test left out
needs_downsample_stride_only(stride, self_ni, nf, block) == stride # 1

\* if stride != 1 or self.ni != nf*block.expansion
needs_downsample(stride, self_ni, nf, block) ==
    stride # 1 \/ self_ni # nf * expansion(block)

\* variant: range(blocks)
later_blocks_from_zero(blocks) == range(0, blocks)

\* for i in range(1, blocks)
later_blocks(blocks) == range(1, blocks)

\* layers.append(block(self.ni, nf)) for every i of idxs, the objects numbered from id
RECURSIVE append_blocks(_, _, _, _, _)
append_blocks(block, self_ni, nf, idxs, id) ==
    IF idxs = <<>> THEN <<>>
    ELSE LET b == Block(block, self_ni, nf, 1, None, id)
         IN  <<b>> \o append_blocks(block, self_ni, nf, Tail(idxs), id + Count(b))

\* the layer built and self.ni as the call leaves it
_make_layer(block, nf, blocks, stride, self_ni, id) ==
    LET pool == IF stride = 2 THEN <<AvgPool2d(2, 2, id)>> ELSE <<>>
        ds_layers == pool \o <<conv(self_ni, nf * expansion(block), 1, 1, FALSE, id + Len(pool)),
                               BatchNorm2d(nf * expansion(block), id + Len(pool) + 1)>>
        downsample == IF needs_downsample(stride, self_ni, nf, block)
                      THEN Sequential(ds_layers, id + CountAll(ds_layers))
                      ELSE None
        first == Block(block, self_ni, nf, stride, downsample, id + Count(downsample))
        ni1 == nf * expansion(block)
        rest == append_blocks(block, ni1, nf, later_blocks(blocks), id + Count(first))
        layers == <<first>> \o rest
    IN  [layer |-> Sequential(layers, id + CountAll(layers)), ni |-> ni1]

----------------------------------------------------------------------------
(* xresnet.py, lines 8-15 and 89-94: initialisation of the parameters *)

\* variant: the children are not visited
init_cnn_no_recursion(m) ==
    LET m1 == IF m.kind = "Conv2d"
              THEN [m EXCEPT !.w = "kaiming", !.b = IF @ # "none" THEN "zero" ELSE @]
              ELSE IF m.kind = "BatchNorm2d" THEN [m EXCEPT !.w = "one", !.b = "zero"]
              ELSE m
    IN  [m1 EXCEPT !.seen = @ + 1]

RECURSIVE init_cnn(_)
init_cnn(m) ==
    LET m1 == IF m.kind = "Conv2d"
              THEN [m EXCEPT !.w = "kaiming", !.b = IF @ # "none" THEN "zero" ELSE @]
              ELSE IF m.kind = "BatchNorm2d" THEN [m EXCEPT !.w = "one", !.b = "zero"]
              ELSE m
    IN  [m1 EXCEPT !.seen = @ + 1, !.ch = [i \in 1..Len(@) |-> init_cnn(@[i])]]

\* m.conv2[0] of a BasicBlock, m.conv3[0] of a Bottleneck
zeroed_child(kind) == IF kind = "BasicBlock" THEN "conv2" ELSE "conv3"

\* variant: the weight is left as init_cnn wrote it
zero_weight_skipped(m, name) == m

\* nn.init.constant_(m.<name>[0].weight, 0.)
zero_weight(m, name) ==
    LET k == CHOOSE i \in 1..Len(m.names) : m.names[i] = name
    IN  [m EXCEPT !.ch[k].ch[1].w = "zero"]

\* the body of "for m in self.modules()", on m and then on the modules below it
RECURSIVE override(_)
override(m) ==
    LET m1 == IF m.kind \in {"BasicBlock", "Bottleneck"} THEN zero_weight(m, zeroed_child(m.kind))
              ELSE IF m.kind = "Linear" THEN [m EXCEPT !.w = "normal_0_01"]
              ELSE m
    IN  [m1 EXCEPT !.ch = [i \in 1..Len(@) |-> override(@[i])]]

\* model.load_state_dict(...): every parameter is overwritten
RECURSIVE load_state_dict(_)
load_state_dict(m) ==
    [m EXCEPT !.w = IF @ # "none" THEN "loaded" ELSE @,
              !.b = IF @ # "none" THEN "loaded" ELSE @,
              !.ch = [i \in 1..Len(@) |-> load_state_dict(@[i])]]

----------------------------------------------------------------------------
(* xresnet.py, lines 71-94: XResNet.__init__, one action per step *)

\* the entry of XResNet(block, layers, num_classes), called directly
XResNet(block, layers, num_classes) ==
    /\ pc = "idle"
    /\ pc' = "init"
    /\ args' = [name |-> "XResNet", block |-> block, layers |-> layers,
                num_classes |-> num_classes, pre |-> FALSE]
    /\ ncalls' = ncalls + 1
    /\ err' = ""
    /\ io' = <<>>
    /\ UNCHANGED <<ni, stage, model, models, nextId, out>>

\* lines 72-77: self.ni = 64 and the stem
XResNet_init_stem ==
    /\ pc = "init"
    /\ LET self0 == Module(nextId, "XResNet", <<>>, <<>>)
           conv1 == conv_bn_relu(InputChannels, 32, 3, 2, nextId + 1)
           conv2 == conv_bn_relu(32, 32, 3, 1, conv1.id + 1)
           conv3 == conv(32, 64, 3, 1, FALSE, conv2.id + 1)
           maxpool == MaxPool2d(3, 2, 1, conv3.id + 1)
       IN  /\ model' = AddChild(AddChild(AddChild(AddChild(self0,
                           "conv1", conv1), "conv2", conv2), "conv3", conv3), "maxpool", maxpool)
           /\ nextId' = maxpool.id + 1
    /\ ni' = 64
    /\ stage' = 1
    /\ pc' = "layers"
    /\ UNCHANGED <<args, models, ncalls, err, io, out>>

\* the nf and stride lines 78-81 pass for layer1..layer4
layer_nf(i) == IF i = 1 THEN 64 ELSE IF i = 2 THEN 128 ELSE IF i = 3 THEN 256 ELSE 512

layer_stride(i) == IF i = 1 THEN 1 ELSE 2

layer_name(i) == IF i = 1 THEN "layer1" ELSE IF i = 2 THEN "layer2"
                 ELSE IF i = 3 THEN "layer3" ELSE "layer4"

\* lines 78-81: self.layer<stage> = self._make_layer(block, nf, layers[stage-1], stride)
XResNet_init_layer ==
    /\ pc = "layers"
    /\ LET r == _make_layer(args.block, layer_nf(stage), args.layers[stage],
                            layer_stride(stage), ni, nextId)
       IN  /\ model' = AddChild(model, layer_name(stage), r.layer)
           /\ ni' = r.ni
           /\ nextId' = r.layer.id + 1
    /\ IF stage < 4 THEN stage' = stage + 1 /\ pc' = "layers"
                    ELSE stage' = stage /\ pc' = "head"
    /\ UNCHANGED <<args, models, ncalls, err, io, out>>

\* lines 82-87: the head
XResNet_init_head ==
    /\ pc = "head"
    /\ LET ni_ == 512 * expansion(args.block)
           avgpool == AdaptiveAvgPool2d(1, nextId)
           fc == Sequential(<<ReLU(nextId + 1), BatchNorm1d(ni_, nextId + 2),
                              Linear(ni_, args.num_classes, nextId + 3)>>, nextId + 4)
       IN  /\ model' = AddChild(AddChild(model, "avgpool", avgpool), "fc", fc)
           /\ nextId' = fc.id + 1
    /\ pc' = "init_cnn"
    /\ UNCHANGED <<args, ni, stage, models, ncalls, err, io, out>>

\* line 89: init_cnn(self)
XResNet_init_cnn ==
    /\ pc = "init_cnn"
    /\ model' = init_cnn(model)
    /\ pc' = "override"
    /\ UNCHANGED <<args, ni, stage, models, ncalls, nextId, err, io, out>>

\* lines 91-94: the loop over self.modules(); __init__ returns
XResNet_init_override ==
    /\ pc = "override"
    /\ model' = override(model)
    /\ pc' = "built"
    /\ UNCHANGED <<args, ni, stage, models, ncalls, nextId, err, io, out>>

----------------------------------------------------------------------------
(* xresnet.py, lines 129-150: the factories *)

model_urls == [xresnet34 |-> "xresnet34", xresnet50 |-> "xresnet50"]

\* line 132: model = XResNet(block, n_layers, **kwargs)
xresnet(block, n_layers, name, pre, num_classes) ==
    /\ pc = "idle"
    /\ pc' = "init"
    /\ args' = [name |-> name, block |-> block, layers |-> n_layers,
                num_classes |-> num_classes, pre |-> pre]
    /\ ncalls' = ncalls + 1
    /\ err' = ""
    /\ io' = <<>>
    /\ UNCHANGED <<ni, stage, model, models, nextId, out>>

xresnet18(pretrained, num_classes) ==
    xresnet("BasicBlock", <<2, 2, 2, 2>>, "xresnet18", pretrained, num_classes)

xresnet34(pretrained, num_classes) ==
    xresnet("BasicBlock", <<3, 4, 6, 3>>, "xresnet34", pretrained, num_classes)

xresnet50(pretrained, num_classes) ==
    xresnet("Bottleneck", <<3, 4, 6, 3>>, "xresnet50", pretrained, num_classes)

xresnet101(pretrained, num_classes) ==
    xresnet("Bottleneck", <<3, 4, 23, 3>>, "xresnet101", pretrained, num_classes)

xresnet152(pretrained, num_classes) ==
    xresnet("Bottleneck", <<3, 8, 36, 3>>, "xresnet152", pretrained, num_classes)

\* line 134: if pre: model.load_state_dict(torch.load(model_urls[name])).
\* found: whether the file torch.load is given exists (the caller's file system)
xresnet_load(found) ==
    /\ pc = "built"
    /\ args.name # "XResNet"
    /\ args.pre
    /\ IF args.name \notin DOMAIN model_urls
       THEN /\ err' = "KeyError"
            /\ io' = Append(io, "model_urls")
            /\ pc' = "idle"
            /\ UNCHANGED model
       ELSE IF ~found
       THEN /\ err' = "FileNotFoundError"
            /\ io' = io \o <<"model_urls", "torch.load">>
            /\ pc' = "idle"
            /\ UNCHANGED model
       ELSE /\ err' = err
            /\ io' = io \o <<"model_urls", "torch.load", "load_state_dict">>
            /\ pc' = "loaded"
            /\ model' = load_state_dict(model)
    /\ UNCHANGED <<args, ni, stage, models, ncalls, nextId, out>>

\* line 135: return model (and the return of a direct XResNet(...) call)
Return ==
    /\ \/ pc = "loaded"
       \/ pc = "built" /\ (args.name = "XResNet" \/ ~args.pre)
    /\ models' = Append(models, [args |-> args, model |-> model])
    /\ pc' = "idle"
    /\ UNCHANGED <<args, ni, stage, model, ncalls, nextId, err, io, out>>

----------------------------------------------------------------------------
(* xresnet.py, lines 43-48, 61-67, 112-127: the forward passes, on the shape *)
(* of the tensor.  A shape is [c, h, w, err, eq]: channels, height, width, *)
(* the exception raised so far ("" when none), and whether every residual  *)
(* addition so far had operands of the same size.  The batch dimension is  *)
(* left out: no layer of this file changes it.                             *)

Shape(c, h, w) == [c |-> c, h |-> h, w |-> w, err |-> "", eq |-> TRUE]

Raise(x, e) == [x EXCEPT !.err = e]

\* the output size of Conv2d, MaxPool2d and AvgPool2d along one axis (floor division)
out_size(n, ks, stride, pad) == (n + 2 * pad - ks) \div stride + 1

\* a sliding window (convolution or pooling) over the height and the width
window(m, x) ==
    LET h == out_size(x.h, m.ks, m.stride, m.pad)
        w == out_size(x.w, m.ks, m.stride, m.pad)
    IN  IF h < 1 \/ w < 1 THEN Raise(x, "size") ELSE [x EXCEPT !.h = h, !.w = w]

\* x += identity: identity must have the size of x or broadcast to it
add(x, identity) ==
    IF identity.err # "" THEN identity
    ELSE IF x.err # "" THEN x
    ELSE IF <<identity.c, identity.h, identity.w>> = <<x.c, x.h, x.w>>
         THEN [x EXCEPT !.eq = x.eq /\ identity.eq]
    ELSE IF /\ identity.c \in {x.c, 1}
            /\ identity.h \in {x.h, 1}
            /\ identity.w \in {x.w, 1}
         THEN [x EXCEPT !.eq = FALSE]
    ELSE [x EXCEPT !.err = "add", !.eq = FALSE]

RECURSIVE forward(_, _)
RECURSIVE forward_all(_, _)

\* nn.Sequential.forward: the children in order
forward_all(ms, x) ==
    IF ms = <<>> THEN x ELSE forward_all(Tail(ms), forward(Head(ms), x))

\* BasicBlock.forward and Bottleneck.forward
block_forward(m, x) ==
    LET identity == IF Child(m, "downsample") = None THEN x
                    ELSE forward(Child(m, "downsample"), x)
        x1 == forward(Child(m, "conv1"), x)
        x2 == forward(Child(m, "conv2"), x1)
        x3 == IF m.kind = "Bottleneck" THEN forward(Child(m, "conv3"), x2) ELSE x2
    IN  add(x3, identity)

\* XResNet.forward
XResNet_forward(m, x) ==
    LET x1 == forward(Child(m, "conv1"), x)
        x2 == forward(Child(m, "conv2"), x1)
        x3 == forward(Child(m, "conv3"), x2)
        x4 == forward(Child(m, "maxpool"), x3)
        x5 == forward(Child(m, "layer1"), x4)
        x6 == forward(Child(m, "layer2"), x5)
        x7 == forward(Child(m, "layer3"), x6)
        x8 == forward(Child(m, "layer4"), x7)
        x9 == forward(Child(m, "avgpool"), x8)
        x10 == IF x9.err # "" THEN x9
               ELSE [x9 EXCEPT !.c = x9.c * x9.h * x9.w, !.h = 1, !.w = 1]
    IN  forward(Child(m, "fc"), x10)

forward(m, x) ==
    IF x.err # "" THEN x
    ELSE CASE m.kind = "Conv2d" ->
                IF x.c # m.ni THEN Raise(x, "channels") ELSE [window(m, x) EXCEPT !.c = m.nf]
           [] m.kind \in {"BatchNorm2d", "BatchNorm1d"} ->
                IF x.c # m.ni THEN Raise(x, "channels") ELSE x
           [] m.kind = "Linear" ->
                IF x.c # m.ni THEN Raise(x, "channels") ELSE [x EXCEPT !.c = m.nf]
           [] m.kind = "ReLU" -> x
           [] m.kind \in {"MaxPool2d", "AvgPool2d"} -> window(m, x)
           [] m.kind = "AdaptiveAvgPool2d" -> [x EXCEPT !.h = m.nf, !.w = m.nf]
           [] m.kind = "Sequential" -> forward_all(m.ch, x)
           [] m.kind \in {"BasicBlock", "Bottleneck"} -> block_forward(m, x)
           [] m.kind = "XResNet" -> XResNet_forward(m, x)

\* model(x) for an image batch of height h and width w
Forward(k, h, w) ==
    /\ pc = "idle"
    /\ k \in DOMAIN models
    /\ out' = [kind |-> "forward", model |-> k, x |-> Shape(InputChannels, h, w),
               y |-> forward(models[k].model, Shape(InputChannels, h, w))]
    /\ UNCHANGED <<pc, args, ni, stage, model, models, ncalls, nextId, err, io>>

----------------------------------------------------------------------------
(* The forward pass of one block, on values.  A tensor is seen through two *)
(* neighbouring elements of one channel, <<v1, v2>>; g is the value drawn  *)
(* for a parameter the initialisation left random.                         *)

Elems == {1, 2}

\* a parameter's value: g when the initialisation left it random
param(tag, g) == IF tag = "zero" THEN 0 ELSE IF tag = "one" THEN 1 ELSE g

RECURSIVE value(_, _, _)
RECURSIVE value_all(_, _, _)

value_all(ms, v, g) ==
    IF ms = <<>> THEN v ELSE value_all(Tail(ms), value(Head(ms), v, g), g)

\* the three results of a block's forward: the residual branch, identity, the sum
block_value(m, v, g) ==
    LET identity == IF Child(m, "downsample") = None THEN v
                    ELSE value(Child(m, "downsample"), v, g)
        x1 == value(Child(m, "conv1"), v, g)
        x2 == value(Child(m, "conv2"), x1, g)
        x3 == IF m.kind = "Bottleneck" THEN value(Child(m, "conv3"), x2, g) ELSE x2
    IN  [residual |-> x3, identity |-> identity,
         y |-> [i \in Elems |-> x3[i] + identity[i]]]

\* g = [c, s]: the values drawn for a kernel's centre tap and side tap; a scalar
\* parameter left random takes g.c
value(m, v, g) ==
    CASE m.kind = "Conv2d" ->
            \* the kernel over the element and (for a 3x3 kernel) its neighbour, plus
            \* the bias if there is one
            [i \in Elems |-> param(m.w, g.c) * v[i]
                             + (IF m.ks = 1 THEN 0 ELSE param(m.w, g.s) * v[3 - i])
                             + (IF m.b = "none" THEN 0 ELSE param(m.b, g.c))]
      [] m.kind = "BatchNorm2d" ->
            \* weight * (x - mean) / sqrt(var + eps) + bias; the positive factor
            \* 1 / sqrt(var + eps) is left out and the rest is doubled
            [i \in Elems |-> param(m.w, g.c) * (2 * v[i] - (v[1] + v[2]))
                             + 2 * param(m.b, g.c)]
      [] m.kind = "ReLU" -> [i \in Elems |-> Max(v[i], 0)]
      [] m.kind = "AvgPool2d" -> [i \in Elems |-> (v[1] + v[2]) \div 2]
      [] m.kind = "Sequential" -> value_all(m.ch, v, g)
      [] m.kind \in {"BasicBlock", "Bottleneck"} -> block_value(m, v, g).y

InputValues == [Elems -> {-1, 0, 2}]

Draws == [c : {-2, 1, 3}, s : {-1, 2}]

\* models[k].layer<s>[j](v), with g drawn for the random parameters
BlockForward(k, s, j, v, g) ==
    /\ pc = "idle"
    /\ k \in DOMAIN models
    /\ j \in DOMAIN Child(models[k].model, layer_name(s)).ch
    /\ LET m == Child(models[k].model, layer_name(s)).ch[j]
       IN  out' = [kind |-> "block", model |-> k, at |-> <<s, j>>, x |-> v, g |-> g,
                   downsample |-> Child(m, "downsample") # None,
                   y |-> block_value(m, v, g)]
    /\ UNCHANGED <<pc, args, ni, stage, model, models, ncalls, nextId, err, io>>

----------------------------------------------------------------------------
(* The state before any call *)

Init ==
    /\ pc = "idle"
    /\ args = [name |-> "", block |-> "BasicBlock", layers |-> <<>>,
               num_classes |-> DefaultNumClasses, pre |-> FALSE]
    /\ ni = 0
    /\ stage = 1
    /\ model = None
    /\ models = <<>>
    /\ ncalls = 0
    /\ nextId = 1
    /\ err = ""
    /\ io = <<>>
    /\ out = [kind |-> "none"]

Blocks == {"BasicBlock", "Bottleneck"}

LayerLists == [1..4 -> 0..MaxBlocks]

\* XResNet.__init__ and the rest of xresnet(), shared by every driver
Build ==
    \/ XResNet_init_stem
    \/ XResNet_init_layer
    \/ XResNet_init_head
    \/ XResNet_init_cnn
    \/ XResNet_init_override
    \/ \E found \in BOOLEAN : xresnet_load(found)
    \/ Return

(* One call: XResNet(block, layers, num_classes) or a factory *)
Next ==
    \/ \E block \in Blocks, layers \in LayerLists, nc \in NumClasses :
          ncalls = 0 /\ XResNet(block, layers, nc)
    \/ \E pretrained \in BOOLEAN, nc \in NumClasses : ncalls = 0 /\ xresnet18(pretrained, nc)
    \/ \E pretrained \in BOOLEAN, nc \in NumClasses : ncalls = 0 /\ xresnet34(pretrained, nc)
    \/ \E pretrained \in BOOLEAN, nc \in NumClasses : ncalls = 0 /\ xresnet50(pretrained, nc)
    \/ \E pretrained \in BOOLEAN, nc \in NumClasses : ncalls = 0 /\ xresnet101(pretrained, nc)
    \/ \E pretrained \in BOOLEAN, nc \in NumClasses : ncalls = 0 /\ xresnet152(pretrained, nc)
    \/ Build

Spec == Init /\ [][Next]_vars

(* A sequence of up to MaxCalls calls of the five factories *)
NextCalls ==
    \/ \E pretrained \in BOOLEAN : ncalls < MaxCalls /\ xresnet18(pretrained, DefaultNumClasses)
    \/ \E pretrained \in BOOLEAN : ncalls < MaxCalls /\ xresnet34(pretrained, DefaultNumClasses)
    \/ \E pretrained \in BOOLEAN : ncalls < MaxCalls /\ xresnet50(pretrained, DefaultNumClasses)
    \/ \E pretrained \in BOOLEAN : ncalls < MaxCalls /\ xresnet101(pretrained, DefaultNumClasses)
    \/ \E pretrained \in BOOLEAN : ncalls < MaxCalls /\ xresnet152(pretrained, DefaultNumClasses)
    \/ Build

SpecCalls == Init /\ [][NextCalls]_vars

(* One factory call, then one forward pass of the model or of one of its blocks *)
NextForward ==
    \/ \E pretrained \in BOOLEAN : ncalls = 0 /\ xresnet18(pretrained, DefaultNumClasses)
    \/ \E pretrained \in BOOLEAN : ncalls = 0 /\ xresnet34(pretrained, DefaultNumClasses)
    \/ \E pretrained \in BOOLEAN : ncalls = 0 /\ xresnet50(pretrained, DefaultNumClasses)
    \/ \E pretrained \in BOOLEAN : ncalls = 0 /\ xresnet101(pretrained, DefaultNumClasses)
    \/ \E pretrained \in BOOLEAN : ncalls = 0 /\ xresnet152(pretrained, DefaultNumClasses)
    \/ Build
    \/ \E k \in DOMAIN models, h \in 1..MaxH, w \in 1..MaxH :
          out.kind = "none" /\ Forward(k, h, w)
    \/ \E k \in DOMAIN models, s \in 1..4 :
          \E j \in 1..Len(Child(models[k].model, layer_name(s)).ch), v \in InputValues, g \in Draws :
             out.kind = "none" /\ BlockForward(k, s, j, v, g)

SpecForward == Init /\ [][NextForward]_vars

----------------------------------------------------------------------------
(* Views of a module tree used by the properties *)

\* self.modules(): the module and everything below it, parents first
RECURSIVE modules(_)
RECURSIVE modules_all(_)
modules_all(ms) == IF ms = <<>> THEN <<>> ELSE modules(Head(ms)) \o modules_all(Tail(ms))

modules(m) == <<m>> \o modules_all(m.ch)

Range(s) == {s[i] : i \in 1..Len(s)}

\* the identities of the objects of a tree
Ids(m) == {x.id : x \in Range(modules(m))}

\* the tree without identities and parameter states: kinds, order, names, sizes
RECURSIVE Struct(_)
Struct(m) == [kind |-> m.kind, names |-> m.names, ni |-> m.ni, nf |-> m.nf, ks |-> m.ks,
              stride |-> m.stride, pad |-> m.pad,
              ch |-> [i \in 1..Len(m.ch) |-> Struct(m.ch[i])]]

Kinds(m) == [i \in 1..Len(m.ch) |-> m.ch[i].kind]

\* the residual blocks of a model, stage by stage
BlocksOf(m) == UNION {Range(Child(m, layer_name(i)).ch) : i \in 1..4}

\* the bn_relu_conv stages of a block, in forward order
StagesOf(b) ==
    IF b.kind = "Bottleneck" THEN <<Child(b, "conv1"), Child(b, "conv2"), Child(b, "conv3")>>
    ELSE <<Child(b, "conv1"), Child(b, "conv2")>>

LastStage(b) == StagesOf(b)[Len(StagesOf(b))]

Factories == {"xresnet18", "xresnet34", "xresnet50", "xresnet101", "xresnet152"}

----------------------------------------------------------------------------
(* Properties *)

\* C1: in every forward pass of a model built by one of the five factories, for every
\* input height and width, the two operands of every residual addition x += identity
\* have the same height and width (no addition broadcasts and none fails on the sizes).
C1_AdditionsSameSize ==
    out.kind = "forward" => out.y.eq /\ out.y.err # "add"

\* C2: when XResNet.__init__ has returned for a layers list with all entries >= 1, the
\* channel counts match along the whole forward path: no layer receives a tensor with
\* another channel count than it was built for, the stem goes 3 -> 32 -> 32 -> 64, both
\* operands of every residual addition have nf * expansion channels, the head takes
\* 512 * expansion = self.ni features and the output has num_classes features.
C2_ChannelsConsistent ==
    (pc = "built" /\ \A i \in 1..4 : args.layers[i] >= 1) =>
        LET y == forward(model, Shape(InputChannels, 32, 32))
            e == expansion(args.block)
            fc == Child(model, "fc")
        IN  /\ y.err = ""
            /\ y.eq
            /\ y.c = args.num_classes
            /\ <<Child(model, "conv1").ch[1].ni, Child(model, "conv1").ch[1].nf>> = <<3, 32>>
            /\ <<Child(model, "conv2").ch[1].ni, Child(model, "conv2").ch[1].nf>> = <<32, 32>>
            /\ <<Child(model, "conv3").ni, Child(model, "conv3").nf>> = <<32, 64>>
            /\ \A b \in BlocksOf(model) :
                  /\ LastStage(b).ch[3].nf = b.nf * e
                  /\ IF Child(b, "downsample") = None THEN b.ni = b.nf * e
                     ELSE LET ds == Child(b, "downsample")
                          IN  ds.ch[Len(ds.ch)].ni = b.nf * e
            /\ ni = 512 * e
            /\ fc.ch[2].kind = "BatchNorm1d" /\ fc.ch[2].ni = ni
            /\ fc.ch[3].kind = "Linear" /\ fc.ch[3].ni = ni /\ fc.ch[3].nf = args.num_classes

C2_Witness ==
    /\ pc = "built"
    /\ args.block = "Bottleneck"
    /\ args.layers = <<3, 4, 6, 3>>
    /\ forward(model, Shape(InputChannels, 32, 32)).c = args.num_classes
    /\ ni = 2048

\* C3: a factory called with pretrained=True finds model_urls[name] and hands it to
\* torch.load and load_state_dict before it returns, without a lookup error; called
\* with pretrained=False it neither reads model_urls nor loads weights.
C3_PretrainedLoads ==
    (pc = "idle" /\ args.name \in Factories) =>
        IF args.pre
        THEN /\ err # "KeyError"
             /\ Len(io) >= 2 /\ io[1] = "model_urls" /\ io[2] = "torch.load"
             /\ err = "" => io = <<"model_urls", "torch.load", "load_state_dict">>
        ELSE io = <<>> /\ err = ""

\* C7 as stated: when XResNet.__init__ has returned, stage i holds exactly layers[i]
\* blocks of the given block type, for every block count.
C7_ExactlyN ==
    pc = "built" =>
        \A i \in 1..4 :
            /\ Len(Child(model, layer_name(i)).ch) = args.layers[i]
            /\ \A b \in Range(Child(model, layer_name(i)).ch) : b.kind = args.block

\* C7, amended: stage i holds max(layers[i], 1) blocks of the given block type (exactly
\* layers[i] when it is >= 1, one block when it is 0), so the five factories build
\* stages of [2,2,2,2], [3,4,6,3], [3,4,6,3], [3,4,23,3] and [3,8,36,3] blocks.
C7_BlocksPerStage ==
    pc = "built" =>
        LET n == [i \in 1..4 |-> Len(Child(model, layer_name(i)).ch)]
        IN  /\ \A i \in 1..4 :
                  /\ n[i] = Max(args.layers[i], 1)
                  /\ \A b \in Range(Child(model, layer_name(i)).ch) : b.kind = args.block
            /\ args.name = "xresnet18" => n = <<2, 2, 2, 2>> /\ args.block = "BasicBlock"
            /\ args.name = "xresnet34" => n = <<3, 4, 6, 3>> /\ args.block = "BasicBlock"
            /\ args.name = "xresnet50" => n = <<3, 4, 6, 3>> /\ args.block = "Bottleneck"
            /\ args.name = "xresnet101" => n = <<3, 4, 23, 3>> /\ args.block = "Bottleneck"
            /\ args.name = "xresnet152" => n = <<3, 8, 36, 3>> /\ args.block = "Bottleneck"

C7_Witness ==
    /\ pc = "built"
    /\ args.name = "xresnet152"
    /\ Len(Child(model, "layer3").ch) = 36

\* C8 as stated: conv_bn_relu applies the convolution, then batch normalisation, then
\* ReLU; bn_relu_conv applies batch normalisation, then ReLU, then the convolution.
C8_OrderOfNames ==
    pc \in {"layers", "head", "init_cnn", "override", "built"} =>
        /\ Kinds(Child(model, "conv1")) = <<"Conv2d", "BatchNorm2d", "ReLU">>
        /\ Kinds(Child(model, "conv2")) = <<"Conv2d", "BatchNorm2d", "ReLU">>
        /\ \A b \in BlocksOf(model) : \A c \in Range(StagesOf(b)) :
              Kinds(c) = <<"BatchNorm2d", "ReLU", "Conv2d">>

\* C8, amended: conv_bn_relu(ni, nf) applies the convolution ni -> nf, then ReLU, then
\* batch normalisation of nf channels; bn_relu_conv(ni, nf) applies batch normalisation
\* of ni channels, then ReLU, then the convolution ni -> nf: the reverse module order.
C8_OrderOfCode ==
    pc \in {"layers", "head", "init_cnn", "override", "built"} =>
        /\ \A c \in {Child(model, "conv1"), Child(model, "conv2")} :
              /\ Kinds(c) = <<"Conv2d", "ReLU", "BatchNorm2d">>
              /\ c.ch[3].ni = c.ch[1].nf
        /\ \A b \in BlocksOf(model) : \A c \in Range(StagesOf(b)) :
              /\ Kinds(c) = <<"BatchNorm2d", "ReLU", "Conv2d">>
              /\ Kinds(c) = Reverse(Kinds(Child(model, "conv1")))
              /\ c.ch[1].ni = c.ch[3].ni

C8_Witness ==
    /\ pc = "built"
    /\ Kinds(Child(model, "conv1")) = <<"Conv2d", "ReLU", "BatchNorm2d">>
    /\ \E b \in BlocksOf(model) :
          /\ Kinds(Child(b, "conv1")) = <<"BatchNorm2d", "ReLU", "Conv2d">>
          /\ Child(b, "conv1").ch[1].ni # Child(b, "conv1").ch[3].nf

\* the BatchNorm2d modules the loop of lines 91-94 is meant to zero: conv2[0] of every
\* BasicBlock and conv3[0] of every Bottleneck
ZeroedIds(m) ==
    {Child(b, IF b.kind = "BasicBlock" THEN "conv2" ELSE "conv3").ch[1].id : b \in BlocksOf(m)}

\* C4: after line 89 and before the loop of lines 91-94, init_cnn has been applied to
\* every module exactly once, every Conv2d weight is Kaiming-normal, every BatchNorm2d
\* has weight 1 and bias 0 and the Linear weight is untouched; when XResNet.__init__
\* has returned, the loop has set conv2[0].weight of every BasicBlock and
\* conv3[0].weight of every Bottleneck to zero and the Linear weight to normal(0, 0.01),
\* and nothing else has changed: every other BatchNorm2d weight is 1, every BatchNorm2d
\* bias 0, every Conv2d weight Kaiming-normal, every module visited exactly once.
C4_InitOrder ==
    /\ pc = "override" =>
          \A m \in Range(modules(model)) :
              /\ m.seen = 1
              /\ m.kind = "Conv2d" => m.w = "kaiming"
              /\ m.kind = "BatchNorm2d" => m.w = "one" /\ m.b = "zero"
              /\ m.kind = "Linear" => m.w = "default"
    /\ pc = "built" =>
          /\ \A m \in Range(modules(model)) :
                /\ m.seen = 1
                /\ m.kind = "Conv2d" => m.w = "kaiming"
                /\ m.kind = "BatchNorm2d" =>
                      /\ m.b = "zero"
                      /\ m.w = IF m.id \in ZeroedIds(model) THEN "zero" ELSE "one"
                /\ m.kind = "Linear" => m.w = "normal_0_01"
          /\ \A b \in BlocksOf(model) :
                /\ b.kind = "BasicBlock" => Child(b, "conv2").ch[1].w = "zero"
                /\ b.kind = "Bottleneck" => Child(b, "conv3").ch[1].w = "zero"

C4_Witness ==
    /\ pc = "built"
    /\ args.block = "Bottleneck"
    /\ \E b \in BlocksOf(model) :
          /\ Child(b, "conv3").ch[1].w = "zero"
          /\ Child(b, "conv2").ch[1].w = "one"
          /\ Child(b, "conv3").ch[3].w = "kaiming"
    /\ Child(model, "fc").ch[3].w = "normal_0_01"

C6_MakeLayerStep ==
    pc = "layers" =>
        LET L == Child(model', layer_name(stage))
            first == L.ch[1]
            ds == Child(first, "downsample")
            nf == layer_nf(stage)
            st == layer_stride(stage)
            out_ch == nf * expansion(args.block)
            conv_bn == <<ds.ch[Len(ds.ch) - 1], ds.ch[Len(ds.ch)]>>
        IN  /\ (ds # None) <=> (st # 1 \/ ni # out_ch)
            /\ ds # None =>
                  /\ Kinds(ds) = (IF st = 2 THEN <<"AvgPool2d">> ELSE <<>>)
                                 \o <<"Conv2d", "BatchNorm2d">>
                  /\ st = 2 => ds.ch[1].ks = 2 /\ ds.ch[1].stride = 2
                  /\ conv_bn[1].ks = 1 /\ conv_bn[1].stride = 1
                  /\ conv_bn[1].ni = ni /\ conv_bn[1].nf = out_ch
                  /\ conv_bn[2].ni = out_ch
            /\ first.stride = st /\ first.ni = ni /\ first.nf = nf
            /\ \A j \in 2..Len(L.ch) :
                  /\ L.ch[j].stride = 1
                  /\ Child(L.ch[j], "downsample") = None
                  /\ L.ch[j].ni = out_ch
            /\ ni' = out_ch

\* C6 (consequence): a block without a downsample branch has stride 1 and as many input
\* as output channels.
C6_RawIdentity ==
    pc \in {"layers", "head", "init_cnn", "override", "built"} =>
        \A b \in BlocksOf(model) :
            Child(b, "downsample") = None => b.stride = 1 /\ b.ni = b.nf * expansion(b.kind)

\* C6: both of the above, in every step and every state
C6_MakeLayer == [][C6_MakeLayerStep]_vars /\ []C6_RawIdentity

C6_Witness ==
    /\ pc = "layers"
    /\ stage = 3
    /\ args.block = "Bottleneck"
    /\ Kinds(Child(Child(model, "layer1").ch[1], "downsample")) = <<"Conv2d", "BatchNorm2d">>
    /\ Kinds(Child(Child(model, "layer2").ch[1], "downsample"))
          = <<"AvgPool2d", "Conv2d", "BatchNorm2d">>
    /\ Len(Child(model, "layer2").ch) > 1

\* C9: construction carries no state from one call to the next: self.ni is 64 when
\* layer1 is built, whatever was called before; any two models the factory calls have
\* returned share no module object, no model holds an object twice, and two calls with
\* the same block type, layers list and num_classes have returned models of the same
\* structure (kinds, order, names, channel counts, kernel sizes, strides, downsamples).
C9_NoCarriedState ==
    /\ (pc = "layers" /\ stage = 1) => ni = 64
    /\ \A i \in DOMAIN models : Cardinality(Ids(models[i].model)) = Count(models[i].model)
    /\ \A i \in DOMAIN models : \A j \in DOMAIN models :
          i < j =>
             /\ Ids(models[i].model) \cap Ids(models[j].model) = {}
             /\ (/\ models[i].args.block = models[j].args.block
                 /\ models[i].args.layers = models[j].args.layers
                 /\ models[i].args.num_classes = models[j].args.num_classes)
                => Struct(models[i].model) = Struct(models[j].model)

C9_Witness ==
    /\ Len(models) = 2
    /\ models[1].args.name = "xresnet50"
    /\ models[2].args.name = "xresnet50"
    /\ models[1].args.pre # models[2].args.pre
    /\ Struct(models[1].model) = Struct(models[2].model)
    /\ models[1].model # models[2].model

====
